---- MODULE Spec2Model ----
(***************************************************************************)
(* Model of mark.go: an order-k Markov chain text generator.               *)
(*                                                                         *)
(* A Go string is a sequence of one-character strings, so that             *)
(* strings.Join, strings.Split, strconv.Itoa and strconv.Atoi are modelled *)
(* by what they do to the characters.  A Go map is a function whose        *)
(* DOMAIN is the set of keys present.  A file is the sequence of its       *)
(* lines (what fmt.Fprintln writes and bufio.Scanner yields).              *)
(*                                                                         *)
(* The program runs in two modes (main): "read" builds a frequency table   *)
(* from input files and writes it to a table file; "generate" decodes a    *)
(* table file, expands it into a chain and walks the chain.  The model     *)
(* follows one table file: it is either written by a "read" run or         *)
(* supplied from outside, and then read by one "generate" run.             *)
(***************************************************************************)
EXTENDS Integers, Sequences, FiniteSets, TLC

\* ------------------------------------------------------------------ bounds
MaxPrefixLen == 2   \* largest prefix length given to "read" / on line 1
MaxStreamLen == 2   \* longest enumerated input token stream
MaxFiles     == 2   \* input files per "read" run
MaxWords     == 2   \* largest word count given to "generate"
MaxItems     == 3   \* fields per line of an externally supplied table file
MaxLines     == 1   \* lines after line 1 of an externally supplied file

\* ------------------------------------------------------- strings and maps
Range(f) == {f[x] : x \in DOMAIN f}

EmptyMap == <<>>

Space == " "
Digits == <<"0", "1", "2", "3", "4", "5", "6", "7", "8", "9">>
IsDigit(ch) == \E d \in 1..10 : Digits[d] = ch
DigitVal(ch) == (CHOOSE d \in 1..10 : Digits[d] = ch) - 1

\* The characters the model uses, in ascending byte order.
Alphabet == <<" ", "\"", "+", "-",
              "0", "1", "2", "3", "4", "5", "6", "7", "8", "9",
              "I", "a", "b", "e", "f", "m", "n", "o", "r", "t", "u">>
Code(ch) == CHOOSE c \in 1..Len(Alphabet) : Alphabet[c] = ch

\* Go's < on strings: bytewise lexicographic.
StrLess(s, t) ==
    \/ Len(s) < Len(t) /\ \A j \in 1..Len(s) : s[j] = t[j]
    \/ \E j \in 1..Len(s) :
          /\ j <= Len(t)
          /\ \A h \in 1..(j - 1) : s[h] = t[h]
          /\ Code(s[j]) < Code(t[j])

\* sort.Strings over the keys collected from a map.
RECURSIVE SortStrings(_)
SortStrings(S) ==
    IF S = {} THEN <<>>
    ELSE LET m == CHOOSE x \in S : \A y \in S \ {x} : StrLess(x, y)
         IN  <<m>> \o SortStrings(S \ {m})

\* strings.Join(elems, " ")
RECURSIVE Join(_)
Join(elems) ==
    IF elems = <<>> THEN <<>>
    ELSE IF Len(elems) = 1 THEN elems[1]
    ELSE elems[1] \o <<Space>> \o Join(Tail(elems))

\* strings.Split(s, " "): the pieces between single spaces; never empty.
RECURSIVE SplitFrom(_, _, _)
SplitFrom(s, j, cur) ==
    IF j > Len(s) THEN <<cur>>
    ELSE IF s[j] = Space THEN <<cur>> \o SplitFrom(s, j + 1, <<>>)
    ELSE SplitFrom(s, j + 1, Append(cur, s[j]))

Split(s) == SplitFrom(s, 1, <<>>)

\* strconv.Itoa
RECURSIVE NatToStr(_)
NatToStr(v) ==
    IF v < 10 THEN <<Digits[v + 1]>>
    ELSE NatToStr(v \div 10) \o <<Digits[(v % 10) + 1]>>

Itoa(v) == IF v < 0 THEN <<"-">> \o NatToStr(0 - v) ELSE NatToStr(v)

\* strconv.Atoi: an optional sign and at least one decimal digit.
AtoiBody(s) == IF s # <<>> /\ s[1] \in {"+", "-"} THEN Tail(s) ELSE s

AtoiOk(s) ==
    /\ AtoiBody(s) # <<>>
    /\ \A j \in 1..Len(AtoiBody(s)) : IsDigit(AtoiBody(s)[j])

RECURSIVE StrToNat(_)
StrToNat(s) ==
    IF s = <<>> THEN 0
    ELSE 10 * StrToNat(SubSeq(s, 1, Len(s) - 1)) + DigitVal(s[Len(s)])

Atoi(s) == IF s[1] = "-" THEN 0 - StrToNat(AtoiBody(s)) ELSE StrToNat(AtoiBody(s))

\* ------------------------------------------------------------------ Prefix
\* The start prefix "\"\"": two double-quote characters.
Sentinel == <<"\"", "\"">>

\* Prefix.String
String(p) == Join(p)

\* A slip that takes Shift to leave an empty Prefix alone.
ShiftNeverPanics(p) == FALSE

\* Prefix.Shift panics on an empty Prefix: p[1:] is out of bounds.
ShiftPanics(p) == Len(p) = 0

\* A slip that overwrites the last word without moving the others.
ShiftNoCopy(p, word) == [j \in 1..Len(p) |-> IF j = Len(p) THEN word ELSE p[j]]

\* Prefix.Shift on a non-empty Prefix: copy(p, p[1:]); p[len(p)-1] = word
Shift(p, word) == [j \in 1..Len(p) |-> IF j = Len(p) THEN word ELSE p[j + 1]]

\* A slip that leaves the start prefix as make() returns it: empty strings.
StartPrefixEmpty(k) == [j \in 1..k |-> <<>>]

\* make([]string, prefixLen) filled with the sentinel
StartPrefix(k) == [j \in 1..k |-> Sentinel]

\* ------------------------------------------------------------ ingestion
\* A slip that stores 1 instead of incrementing.
AddSuffixReset(t, key, s) ==
    IF key \in DOMAIN t
    THEN [t EXCEPT ![key] = (s :> 1) @@ t[key]]
    ELSE (key :> (s :> 1)) @@ t

\* A slip that enters the first suffix of a new prefix with count 0.
AddSuffixZero(t, key, s) ==
    IF key \in DOMAIN t
    THEN IF s \in DOMAIN t[key]
         THEN [t EXCEPT ![key][s] = @ + 1]
         ELSE [t EXCEPT ![key] = (s :> 1) @@ t[key]]
    ELSE (key :> (s :> 0)) @@ t

\* The frequency update of one token under the current key.
AddSuffix(t, key, s) ==
    IF key \in DOMAIN t
    THEN IF s \in DOMAIN t[key]
         THEN [t EXCEPT ![key][s] = @ + 1]
         ELSE [t EXCEPT ![key] = (s :> 1) @@ t[key]]
    ELSE (key :> (s :> 1)) @@ t

\* c.chain[key] = append(c.chain[key], s)
AppendChain(ch, key, s) ==
    IF key \in DOMAIN ch
    THEN [ch EXCEPT ![key] = Append(@, s)]
    ELSE (key :> <<s>>) @@ ch

\* The scan loop of FileToFreqTable over the tokens not yet read.  The
\* result carries the table, the chain and whether Shift panicked.
RECURSIVE ScanWords(_, _, _, _)
ScanWords(t, ch, p, toks) ==
    IF toks = <<>> THEN [freqTable |-> t, chain |-> ch, err |-> "ok"]
    ELSE LET s   == Head(toks)
             key == String(p)
             t2  == AddSuffix(t, key, s)
             ch2 == AppendChain(ch, key, s)
         IN  IF ShiftPanics(p)
             THEN [freqTable |-> t2, chain |-> ch2,
                   err |-> "slice bounds out of range"]
             ELSE ScanWords(t2, ch2, Shift(p, s), Tail(toks))

\* ------------------------------------------------------------------ inputs
Word(x) == <<x>>
Words == {Word("a"), Word("b")}

\* "I am not a number I am a free man"
TI      == <<"I">>
Tam     == <<"a", "m">>
Tnot    == <<"n", "o", "t">>
Ta      == <<"a">>
Tnumber == <<"n", "u", "m", "b", "e", "r">>
Tfree   == <<"f", "r", "e", "e">>
Tman    == <<"m", "a", "n">>
ExampleStream == <<TI, Tam, Tnot, Ta, Tnumber, TI, Tam, Ta, Tfree, Tman>>

SeqsUpTo(S, len) == UNION {[1..m -> S] : m \in 0..len}

\* The token streams bufio.ScanWords yields for the input files.
Streams == SeqsUpTo(Words, MaxStreamLen) \cup {ExampleStream}

\* The input files of one "read" run (os.Args[4:]), each by its tokens:
\* up to MaxFiles enumerated streams, or the example text alone.
ArgLists ==
    SeqsUpTo(SeqsUpTo(Words, MaxStreamLen), MaxFiles) \cup {<<ExampleStream>>}

\* ------------------------------------------------------------------ encode
\* The orders in which a range over a Go map may visit its keys.
Orders(S) == {o \in [1..Cardinality(S) -> S] : Range(o) = S}

\* sufCount = append(sufCount, k2, strconv.Itoa(v2)) in the order o
RECURSIVE SufCount(_, _)
SufCount(v, o) ==
    IF o = <<>> THEN <<>>
    ELSE <<Head(o), Itoa(v[Head(o)])>> \o SufCount(v, Tail(o))

\* A slip that leaves out the separator between the key and the pairs.
FreqLineNoSep(key, v, o) == key \o Join(SufCount(v, o))

\* key + " " + strings.Join(sufCount, " ")
FreqLine(key, v, o) == key \o <<Space>> \o Join(SufCount(v, o))

\* The data lines FreqTableToFile may write for the sorted keys.
RECURSIVE FreqLines(_, _)
FreqLines(keys, t) ==
    IF keys = <<>> THEN {<<>>}
    ELSE {<<FreqLine(Head(keys), t[Head(keys)], o)>> \o rest :
             o \in Orders(DOMAIN t[Head(keys)]),
             rest \in FreqLines(Tail(keys), t)}

\* The files FreqTableToFile may write: line 1 is the prefix length.
FreqFiles(k, t) ==
    {<<Itoa(k)>> \o ls : ls \in FreqLines(SortStrings(DOMAIN t), t)}

\* ------------------------------------------------------------------ decode
\* NewChain
NewChain(k) == [chain |-> EmptyMap, prefixLen |-> k, freqTable |-> EmptyMap]

\* The suffix loop of one data line; i is Go's index (from 0) into items,
\* m is c.freqTable[key].
RECURSIVE ReadPairs(_, _, _)
ReadPairs(items, i, m) ==
    IF i >= Len(items) THEN [err |-> "ok", m |-> m]
    ELSE IF i + 1 < 0 \/ i + 1 >= Len(items)
    THEN [err |-> "index out of range", m |-> m]
    ELSE IF ~AtoiOk(items[i + 2])
    THEN [err |-> "Could not convert string to integer", m |-> m]
    ELSE IF i < 0
    THEN [err |-> "index out of range", m |-> m]
    ELSE ReadPairs(items, i + 2, (items[i + 1] :> Atoi(items[i + 2])) @@ m)

\* The body of the scanner loop of FreqTableFromFreqFile for one line.
ScanLine(c, items) ==
    IF Len(items) > 1
    THEN IF c.prefixLen > Len(items)
         THEN [c EXCEPT !.err = "index out of range"]
         ELSE LET key == String(SubSeq(items, 1, c.prefixLen))
                  r   == ReadPairs(items, c.prefixLen, EmptyMap)
              IN  [c EXCEPT !.freqTable = (key :> r.m) @@ c.freqTable,
                            !.err = r.err]
    ELSE IF Len(items[1]) > 0
    THEN IF ~AtoiOk(items[1])
         THEN [c EXCEPT !.err = "Could not convert string to integer"]
         ELSE [c EXCEPT !.prefixLen = Atoi(items[1])]
    ELSE c

\* The scanner loop: a panic ends it.
RECURSIVE ScanLines(_, _)
ScanLines(c, lines) ==
    IF lines = <<>> \/ c.err # "ok" THEN c
    ELSE ScanLines(ScanLine(c, Split(Head(lines))), Tail(lines))

\* FreqTableFromFreqFile: the decoded Chain, or err # "ok" on a panic.
Decode(file) ==
    ScanLines(NewChain(0) @@ [err |-> "ok"], file)

\* ------------------------------------------------------------------ expand
RECURSIVE Repeat(_, _)
Repeat(s, v) == IF v <= 0 THEN <<>> ELSE <<s>> \o Repeat(s, v - 1)

\* sfxs for one prefix, the suffix map visited in the order o
RECURSIVE Sfxs(_, _)
Sfxs(v, o) ==
    IF o = <<>> THEN <<>>
    ELSE Repeat(Head(o), v[Head(o)]) \o Sfxs(v, Tail(o))

\* The chains ChainFromFreqTable may leave for the keys K of table t,
\* starting from chain ch.
RECURSIVE Chains(_, _, _)
Chains(K, t, ch) ==
    IF K = {} THEN {ch}
    ELSE LET k == CHOOSE x \in K : TRUE
         IN  {(k :> Sfxs(t[k], o)) @@ rest :
                 o \in Orders(DOMAIN t[k]), rest \in Chains(K \ {k}, t, ch)}

\* ---------------------------------------------------- supplied table files
Items == {<<"a">>, <<"1">>, <<"-", "1">>}
Lines == {Join(its) : its \in SeqsUpTo(Items, MaxItems)}
ExternalFiles ==
    {<<Itoa(h)>> \o ls : h \in 0..MaxPrefixLen, ls \in SeqsUpTo(Lines, MaxLines)}

NoFile == <<>>

\* ------------------------------------------------------------------- state
VARIABLES
    pc,         \* where main is: "start", "read", "saved", "gen", "decoded",
                \* "expanded", "walk", "done"
    status,     \* "ok", or the message of the panic that ended the process
    chain,      \* Chain.chain
    prefixLen,  \* Chain.prefixLen
    freqTable,  \* Chain.freqTable
    inputs,     \* the token streams of the input files "read" has read so far
    disk,       \* the lines of the table file that "generate" has still to
                \* read, NoFile when there are none
    origin,     \* "none", "encoded" (written by FreqTableToFile), "external"
    built,      \* the prefixLen and freqTable FreqTableToFile encoded
    n,          \* the word count given to Generate
    p,          \* the Prefix of Generate
    words       \* the words of Generate

vars == <<pc, status, chain, prefixLen, freqTable, inputs, disk, origin,
          built, n, p, words>>

Init ==
    /\ pc = "start"
    /\ status = "ok"
    /\ chain = EmptyMap
    /\ prefixLen = 0
    /\ freqTable = EmptyMap
    /\ inputs = <<>>
    /\ disk = NoFile
    /\ origin = "none"
    /\ built = [prefixLen |-> 0, freqTable |-> EmptyMap]
    /\ n = 0
    /\ p = <<>>
    /\ words = <<>>

\* ----------------------------------------------------------------- actions
\* main, "read" mode up to NewChain: a prefix length below 1 is fatal.
MainRead(k) ==
    /\ pc = "start" /\ status = "ok"
    /\ IF k < 1
       THEN /\ status' = "Prefix length must be greater than 0"
            /\ UNCHANGED <<pc, chain, prefixLen, freqTable>>
       ELSE /\ pc' = "read"
            /\ chain' = NewChain(k).chain
            /\ prefixLen' = NewChain(k).prefixLen
            /\ freqTable' = NewChain(k).freqTable
            /\ UNCHANGED status
    /\ UNCHANGED <<inputs, disk, origin, built, n, p, words>>

\* c.FileToFreqTable(os.Args[i]) for an input file holding the tokens toks.
FileToFreqTable(toks) ==
    /\ pc = "read" /\ status = "ok"
    /\ Append(inputs, toks) \in ArgLists
    /\ LET r == ScanWords(freqTable, chain, StartPrefix(prefixLen), toks)
       IN  /\ freqTable' = r.freqTable
           /\ chain' = r.chain
           /\ status' = r.err
    /\ inputs' = Append(inputs, toks)
    /\ UNCHANGED <<pc, prefixLen, disk, origin, built, n, p, words>>

\* c.FreqTableToFile(outputFile), after which main returns and the Chain
\* and the arguments are gone.
FreqTableToFile ==
    /\ pc = "read" /\ status = "ok"
    /\ disk' \in FreqFiles(prefixLen, freqTable)
    /\ origin' = "encoded"
    /\ built' = [prefixLen |-> prefixLen, freqTable |-> freqTable]
    /\ pc' = "saved"
    /\ chain' = EmptyMap
    /\ prefixLen' = 0
    /\ freqTable' = EmptyMap
    /\ inputs' = <<>>
    /\ UNCHANGED <<status, n, p, words>>

\* A table file that was not written by this program.
SupplyFile ==
    /\ pc = "start" /\ status = "ok"
    /\ disk' \in ExternalFiles
    /\ origin' = "external"
    /\ pc' = "saved"
    /\ UNCHANGED <<status, chain, prefixLen, freqTable, inputs, built, n, p,
                   words>>

\* main, "generate" mode up to the decoding: a negative count is fatal.
MainGenerate(m) ==
    /\ pc = "saved" /\ status = "ok"
    /\ IF m < 0
       THEN /\ status' = "Number of words must be positive"
            /\ UNCHANGED <<pc, n>>
       ELSE /\ pc' = "gen"
            /\ n' = m
            /\ UNCHANGED status
    /\ UNCHANGED <<chain, prefixLen, freqTable, inputs, disk, origin, built,
                   p, words>>

\* c := FreqTableFromFreqFile(freqFile): the scanner reads the file to its
\* end; a panic returns no Chain.
FreqTableFromFreqFile ==
    /\ pc = "gen" /\ status = "ok"
    /\ LET c == Decode(disk)
       IN  IF c.err # "ok"
           THEN /\ status' = c.err
                /\ UNCHANGED <<pc, chain, prefixLen, freqTable>>
           ELSE /\ pc' = "decoded"
                /\ chain' = c.chain
                /\ prefixLen' = c.prefixLen
                /\ freqTable' = c.freqTable
                /\ UNCHANGED status
    /\ disk' = NoFile
    /\ UNCHANGED <<inputs, origin, built, n, p, words>>

\* c.ChainFromFreqTable()
ChainFromFreqTable ==
    /\ pc = "decoded" /\ status = "ok"
    /\ chain' \in Chains(DOMAIN freqTable, freqTable, chain)
    /\ pc' = "expanded"
    /\ UNCHANGED <<status, prefixLen, freqTable, inputs, disk, origin, built,
                   n, p, words>>

\* Generate up to its loop: make panics on a negative length.
Generate ==
    /\ pc = "expanded" /\ status = "ok"
    /\ IF prefixLen < 0
       THEN /\ status' = "makeslice: len out of range"
            /\ UNCHANGED <<pc, p, words>>
       ELSE /\ p' = StartPrefix(prefixLen)
            /\ words' = <<>>
            /\ pc' = "walk"
            /\ UNCHANGED status
    /\ UNCHANGED <<chain, prefixLen, freqTable, inputs, disk, origin, built,
                   n>>

\* choices := c.chain[p.String()]
Choices(ch, q) == IF String(q) \in DOMAIN ch THEN ch[String(q)] ELSE <<>>

\* A slip in the loop bound: i <= n.
GenerateWordOffByOne(r) ==
    /\ pc = "walk" /\ status = "ok"
    /\ Len(words) <= n
    /\ LET next == Choices(chain, p)[r + 1]
       IN  /\ words' = Append(words, next)
           /\ IF ShiftPanics(p)
              THEN /\ status' = "slice bounds out of range"
                   /\ UNCHANGED p
              ELSE /\ p' = Shift(p, next)
                   /\ UNCHANGED status
    /\ UNCHANGED <<pc, chain, prefixLen, freqTable, inputs, disk, origin,
                   built, n>>

\* One pass of the loop of Generate with rand.Intn(len(choices)) = r.
GenerateWord(r) ==
    /\ pc = "walk" /\ status = "ok"
    /\ Len(words) < n
    /\ LET next == Choices(chain, p)[r + 1]
       IN  /\ words' = Append(words, next)
           /\ IF ShiftPanics(p)
              THEN /\ status' = "slice bounds out of range"
                   /\ UNCHANGED p
              ELSE /\ p' = Shift(p, next)
                   /\ UNCHANGED status
    /\ UNCHANGED <<pc, chain, prefixLen, freqTable, inputs, disk, origin,
                   built, n>>

\* The loop of Generate ends (i = n, or no choices) and the words are
\* returned and printed.
GenerateReturn ==
    /\ pc = "walk" /\ status = "ok"
    /\ Len(words) >= n \/ Len(Choices(chain, p)) = 0
    /\ pc' = "done"
    /\ UNCHANGED <<status, chain, prefixLen, freqTable, inputs, disk, origin,
                   built, n, p, words>>

Next ==
    \/ \E k \in 0..MaxPrefixLen : MainRead(k)
    \/ \E toks \in Streams : FileToFreqTable(toks)
    \/ FreqTableToFile
    \/ SupplyFile
    \/ \E m \in (0 - 1)..MaxWords : MainGenerate(m)
    \/ FreqTableFromFreqFile
    \/ ChainFromFreqTable
    \/ Generate
    \/ \E r \in 0..(Len(Choices(chain, p)) - 1) : GenerateWord(r)
    \/ GenerateReturn

Spec == Init /\ [][Next]_vars

\* ------------------------------------------------- reference definitions
RECURSIVE SumVals(_)
SumVals(v) ==
    IF DOMAIN v = {} THEN 0
    ELSE LET s == CHOOSE x \in DOMAIN v : TRUE
         IN  v[s] + SumVals([x \in DOMAIN v \ {s} |-> v[x]])

SumCounts(t) == SumVals([K \in DOMAIN t |-> SumVals(t[K])])

RECURSIVE TotalLen(_)
TotalLen(ins) == IF ins = <<>> THEN 0 ELSE Len(Head(ins)) + TotalLen(Tail(ins))

\* The k tokens before position i of the sequence S, padded on the left
\* with the sentinel.
Window(S, i, k) ==
    [j \in 1..k |-> IF i - k + j - 1 >= 1 THEN S[i - k + j - 1] ELSE Sentinel]

Occurrences(K, s, S, k) ==
    Cardinality({i \in 1..Len(S) : S[i] = s /\ Join(Window(S, i, k)) = K})

RECURSIVE RefCount(_, _, _, _)
RefCount(K, s, ins, k) ==
    IF ins = <<>> THEN 0
    ELSE Occurrences(K, s, Head(ins), k) + RefCount(K, s, Tail(ins), k)

RefKeys(ins, k) ==
    UNION {{Join(Window(ins[m], i, k)) : i \in 1..Len(ins[m])} :
              m \in 1..Len(ins)}

TokensOf(ins) == UNION {Range(ins[m]) : m \in 1..Len(ins)}

Occ(sq, s) == Cardinality({j \in 1..Len(sq) : sq[j] = s})

TableInv(t) ==
    \A K \in DOMAIN t :
        /\ DOMAIN t[K] # {}
        /\ \A s \in DOMAIN t[K] : t[K][s] >= 1

Decoded == pc \in {"decoded", "expanded", "walk", "done"}

\* The table FileToFreqTable builds from the example text with prefixLen 2.
ExampleTable ==
    ScanWords(EmptyMap, EmptyMap, StartPrefix(2), ExampleStream).freqTable

KeyIam == Join(<<TI, Tam>>)
KeyAmA == Join(<<Tam, Ta>>)

\* ------------------------------------------------------------------ claims

C2_ReferenceCount ==
    pc = "read" =>
        /\ DOMAIN freqTable = RefKeys(inputs, prefixLen)
        /\ \A K \in DOMAIN freqTable :
              /\ DOMAIN freqTable[K] =
                    {s \in TokensOf(inputs) :
                        RefCount(K, s, inputs, prefixLen) > 0}
              /\ \A s \in DOMAIN freqTable[K] :
                    freqTable[K][s] = RefCount(K, s, inputs, prefixLen)
        /\ (inputs = <<ExampleStream>> /\ prefixLen = 2) =>
              /\ freqTable[KeyIam] = (Tnot :> 1) @@ (Ta :> 1)
              /\ freqTable[KeyAmA] = (Tfree :> 1)

C2_Witness ==
    /\ pc = "read" /\ prefixLen = 1 /\ Len(inputs) = 2
    /\ inputs[1] = <<Word("a"), Word("b")>>
    /\ inputs[2] = <<Word("a"), Word("b")>>
    /\ freqTable[Word("a")][Word("b")] = 2
    /\ Word("b") \notin DOMAIN freqTable

\* C3: the counts of a table built from an empty table, summed over all
\* prefixes and suffixes, equal the number of tokens consumed by all
\* ingestion calls so far.
C3_CountConservation ==
    pc = "read" => SumCounts(freqTable) = TotalLen(inputs)

C3_Witness ==
    /\ pc = "read" /\ Len(inputs) = 2
    /\ TotalLen(inputs) = 4
    /\ SumCounts(freqTable) = 4
    /\ Cardinality(DOMAIN freqTable) < 4

\* C4: after ChainFromFreqTable every prefix key of the table has an
\* expanded sequence whose length is the sum of the key's counts and in
\* which each suffix s occurs table[key][s] times.
C4_ExpansionFidelity ==
    pc \in {"expanded", "walk", "done"} =>
        \A K \in DOMAIN freqTable :
            /\ K \in DOMAIN chain
            /\ Len(chain[K]) = SumVals(freqTable[K])
            /\ \A s \in DOMAIN freqTable[K] :
                  Occ(chain[K], s) = freqTable[K][s]

\* What a Generate run that has ended gave out: its words when it returned,
\* nothing when it panicked.
GenerateEnded == pc = "done" \/ (pc = "walk" /\ status # "ok")
Output == IF pc = "done" THEN words ELSE <<>>

\* C5 as stated: every Generate run emits n tokens unless the walk reached
\* a window without continuation.
C5_AsStated ==
    GenerateEnded => Len(Output) = n \/ Len(Choices(chain, p)) = 0

\* C5 as amended: Generate never holds more than n words; with
\* prefixLen >= 1 the walk never panics, and a run that returns emits
\* exactly n tokens unless its last window has no entry or an empty suffix
\* sequence; n = 0 and an empty chain give an empty output; with
\* prefixLen = 0 a run that picks a word panics in Shift after that word.
C5_GenerationBound ==
    /\ pc \in {"walk", "done"} => Len(words) <= n
    /\ pc = "done" => Len(words) = n \/ Len(Choices(chain, p)) = 0
    /\ pc = "done" /\ (n = 0 \/ chain = EmptyMap) => words = <<>>
    /\ pc = "walk" /\ prefixLen >= 1 => status = "ok"
    /\ pc = "walk" /\ status # "ok" => prefixLen = 0 /\ Len(words) = 1

C5_Witness ==
    /\ pc = "done" /\ prefixLen >= 1 /\ n = 2
    /\ Len(words) = 1
    /\ Len(Choices(chain, p)) = 0
    /\ chain # EmptyMap

\* C6: decoding a file that has a data line with an odd number of fields
\* after the prefix portion (prefixLen as declared on line 1), or a count
\* field that is not an integer, never returns a table.
OddTrailing(items, k) == Len(items) > k /\ (Len(items) - k) % 2 = 1
BadCount(items, k) ==
    \E j \in 1..Len(items) :
        j > k /\ (j - k) % 2 = 0 /\ ~AtoiOk(items[j])

C6_FormatRejection ==
    [][pc = "gen" /\ pc' = "decoded" =>
          \A l \in 2..Len(disk) :
              disk[l] # <<>> =>
                  /\ ~OddTrailing(Split(disk[l]), Atoi(disk[1]))
                  /\ ~BadCount(Split(disk[l]), Atoi(disk[1]))]_vars

\* C7 as stated: with prefixLen = 0 ingestion and generation complete
\* without error.
C7_AsStated ==
    /\ status # "Prefix length must be greater than 0"
    /\ Decoded /\ prefixLen = 0 => status = "ok"

\* C7 as amended: prefixLen = 0 is not a usable prefix length.  "read"
\* mode rejects it before any ingestion, so ingestion runs with
\* prefixLen >= 1 only; with a decoded prefixLen of 0 the window of
\* Generate is the constant empty key, and the first Shift into the empty
\* window panics, so Generate returns only when it picked no word.
C7_ZeroPrefixLen ==
    /\ pc = "read" => prefixLen >= 1
    /\ status = "Prefix length must be greater than 0" =>
          pc = "start" /\ freqTable = EmptyMap /\ disk = NoFile
    /\ pc \in {"walk", "done"} /\ prefixLen = 0 =>
          /\ p = <<>> /\ String(p) = <<>>
          /\ words # <<>> =>
                /\ pc = "walk"
                /\ status = "slice bounds out of range"
                /\ Len(words) = 1

C7_Witness ==
    /\ pc = "walk" /\ prefixLen = 0
    /\ status = "slice bounds out of range"
    /\ Len(words) = 1 /\ n = 2

\* C8: the prefixLen of the decoded model is the integer on line 1,
\* whatever the later lines hold.
C8_PrefixLenFromLine1 ==
    [][pc = "gen" /\ pc' = "decoded" => prefixLen' = Atoi(disk[1])]_vars

\* C9 as stated: every table the program holds, after ingestion or after a
\* successful decode, has counts >= 1 and no prefix without a suffix.
C9_AsStated ==
    pc = "read" \/ Decoded => TableInv(freqTable)

\* C9 as amended: every table built by ingestion, and every table decoded
\* from a file FreqTableToFile wrote, has counts >= 1 and no prefix
\* without a suffix; a table decoded from another file need not.
C9_TableInvariant ==
    /\ pc = "read" => TableInv(freqTable)
    /\ TableInv(built.freqTable)
    /\ origin = "encoded" /\ Decoded => TableInv(freqTable)

C9_Witness ==
    /\ pc = "read" /\ prefixLen = 2 /\ Len(inputs) = 2
    /\ \E K \in DOMAIN freqTable : Cardinality(DOMAIN freqTable[K]) = 2
    /\ \E K \in DOMAIN freqTable :
          \E s \in DOMAIN freqTable[K] : freqTable[K][s] = 2

\* C10: in every Generate run the i-th word is an element of the expanded
\* suffix sequence of the key formed by the prefixLen words before it
\* (sentinel-padded), the window p is those words, and for the example
\* text with prefixLen 2 and n = 2 the output is "I am".
C10_WalkValidity ==
    pc \in {"walk", "done"} =>
        /\ \A i \in 1..Len(words) :
              words[i] \in Range(Choices(chain, Window(words, i, prefixLen)))
        /\ status = "ok" => p = Window(words, Len(words) + 1, prefixLen)
        /\ (pc = "done" /\ origin = "encoded" /\ prefixLen = 2 /\ n = 2
              /\ built.freqTable = ExampleTable) => words = <<TI, Tam>>

C10_Witness ==
    /\ pc = "done" /\ origin = "encoded" /\ prefixLen = 2 /\ n = 2
    /\ built.freqTable # ExampleTable
    /\ Len(words) = 2 /\ words[1] # words[2]
    /\ Len(Choices(chain, StartPrefix(prefixLen))) >= 2

====
